---- MODULE Spec2Model ----
(***************************************************************************)
(* Credit-and-report flow of backend/app/main.py: the /generate and        *)
(* /verify-payment handlers running as independent requests against the   *)
(* shared Supabase tables user_profiles and reports and the Stripe         *)
(* checkout sessions.  Every call to the store, to Stripe or to the        *)
(* research agent is one atomic step of the request that makes it; the     *)
(* local computation that follows a call belongs to the same step.  The    *)
(* tables live in an external service that any number of server workers    *)
(* and the thread pool running verify_payment reach at the same time, so   *)
(* the steps of different requests interleave freely.                      *)
(***************************************************************************)
EXTENDS Integers, Sequences, FiniteSets

\* ---------------------------------------------------------------- bounds
\* requests (of either kind) the server receives in one run
MaxRequests == 3
\* highest balance a profile that exists at the start holds
MaxInitCredits == 1

\* the user ids requests arrive with
Users == {"u1", "u2"}

\* the checkout sessions Stripe holds: a paid one of u1 and an unpaid one of
\* u2; metadata.user_id is fixed when the session is created
SessionIds == {"s1", "s2"}
Session(s) ==
    [payment_status |-> IF s = "s1" THEN "paid" ELSE "unpaid",
     metadata |-> [user_id |-> IF s = "s1" THEN "u1" ELSE "u2"]]

VARIABLES user_profiles, reports, gen, ver

vars == <<user_profiles, reports, gen, ver>>

\* ------------------------------------------------------- pure fragments
\* select(...).eq("user_id", u)
Select(u) == {row \in user_profiles : row.user_id = u}

\* the profile row inserted for a user_id seen for the first time
NewUserShort(r, u) == [id |-> r, user_id |-> u, credits |-> 2, tier |-> "Free"]
NewUser(r, u) == [id |-> r, user_id |-> u, credits |-> 3, tier |-> "Free"]

\* credits a first-time request continues with
NewUserCredits == 3

\* the credit check: the request goes on only when this holds
HasCreditsZeroOk(c) == c >= 0
HasCredits(c) == ~(c <= 0)

\* the balance a verified payment writes, from the value the request read
GrantedOnce(c) == IF c >= 50 THEN c ELSE c + 50
Granted(c) == c + 50

\* the columns a verified payment writes
GrantColumnsNoTier(row, n) == [row EXCEPT !.credits = n]
GrantColumns(row, n) == [row EXCEPT !.credits = n, !.tier = "Pro"]

\* the columns the deduction writes
DeductColumnsIfUnchanged(row, n) ==
    IF row.credits = n + 1 THEN [row EXCEPT !.credits = n] ELSE row
DeductColumns(row, n) == [row EXCEPT !.credits = n]

\* the balance the deduction writes: the value the request read, less one
DeductedFromStore(req) ==
    LET data == Select(req.user_id) IN
      IF data = {} THEN req.current_credits - 1
      ELSE (CHOOSE row \in data : TRUE).credits - 1
DeductedTwice(req) == req.current_credits - 2
DeductedNothing(req) == req.current_credits
Deducted(req) == req.current_credits - 1

\* where the request goes once the agent has returned
AfterAgentIgnoreError(status) == "save"
AfterAgent(status) == IF status = "error" THEN "http500" ELSE "save"

\* where a request goes when a call raises
OnExceptionSwallowSave(pc) == IF pc = "save" THEN "deduct" ELSE "http500"
OnException(pc) == "http500"

\* the ReportRecord of a request
ReportData(r, u) == [user_id |-> u, req |-> r]

\* payment_status == "paid"
IsPaid(session) == session.payment_status = "paid"

\* ------------------------------------------------------------------ Init
\* a /generate request: its position, its locals and, once it has ended, its
\* response (credits_left is new_credits); an HTTPException carries no locals
GenRequest(u) ==
    [pc |-> "select", user_id |-> u, current_credits |-> 0,
     result |-> "none", new_credits |-> 0]

GenHTTPException(req, code) ==
    [GenRequest(req.user_id) EXCEPT !.pc = code, !.result = req.result]

\* a /verify-payment request, likewise
VerifyRequest(s) ==
    [pc |-> "retrieve", session_id |-> s, user_id |-> "none",
     current_credits |-> 0, new_credits |-> 0]

VerHTTPException(req) ==
    [VerifyRequest(req.session_id) EXCEPT !.pc = "http500"]

Init ==
    /\ \E present \in SUBSET Users, c \in [Users -> 0..MaxInitCredits] :
          user_profiles =
              {[id |-> 0, user_id |-> u, credits |-> c[u], tier |-> "Free"] :
                  u \in present}
    /\ reports = {}
    /\ gen = <<>>
    /\ ver = <<>>

\* --------------------------------------------------------------- /generate
GenStart(u) ==
    /\ Len(gen) + Len(ver) < MaxRequests
    /\ gen' = Append(gen, GenRequest(u))
    /\ UNCHANGED <<user_profiles, reports, ver>>

GenSelect(r) ==
    /\ gen[r].pc = "select"
    /\ LET user_data == Select(gen[r].user_id) IN
         IF user_data = {}
         THEN gen' = [gen EXCEPT ![r].pc = "insert"]
         ELSE \E row \in user_data :
                IF HasCredits(row.credits)
                THEN gen' = [gen EXCEPT ![r].current_credits = row.credits,
                                        ![r].pc = "agent"]
                ELSE gen' = [gen EXCEPT ![r] = GenHTTPException(@, "http402")]
    /\ UNCHANGED <<user_profiles, reports, ver>>

GenInsert(r) ==
    /\ gen[r].pc = "insert"
    /\ user_profiles' = user_profiles \cup {NewUser(r, gen[r].user_id)}
    /\ IF HasCredits(NewUserCredits)
       THEN gen' = [gen EXCEPT ![r].current_credits = NewUserCredits,
                               ![r].pc = "agent"]
       ELSE gen' = [gen EXCEPT ![r] = GenHTTPException(@, "http402")]
    /\ UNCHANGED <<reports, ver>>

GenAgent(r) ==
    /\ gen[r].pc = "agent"
    /\ \E status \in {"success", "error"} :
          IF AfterAgent(status) = "http500"
          THEN gen' = [gen EXCEPT
                         ![r] = GenHTTPException([@ EXCEPT !.result = status],
                                                 "http500")]
          ELSE gen' = [gen EXCEPT ![r].result = status,
                                  ![r].pc = AfterAgent(status)]
    /\ UNCHANGED <<user_profiles, reports, ver>>

GenSave(r) ==
    /\ gen[r].pc = "save"
    /\ reports' = reports \cup {ReportData(r, gen[r].user_id)}
    /\ gen' = [gen EXCEPT ![r].pc = "deduct"]
    /\ UNCHANGED <<user_profiles, ver>>

GenDeduct(r) ==
    /\ gen[r].pc = "deduct"
    /\ LET new_credits == Deducted(gen[r]) IN
         /\ user_profiles' =
               {IF row.user_id = gen[r].user_id
                THEN DeductColumns(row, new_credits)
                ELSE row : row \in user_profiles}
         /\ gen' = [gen EXCEPT ![r].new_credits = new_credits,
                               ![r].pc = "http200"]
    /\ UNCHANGED <<reports, ver>>

GenRaise(r) ==
    /\ gen[r].pc \in {"select", "insert", "agent", "save", "deduct"}
    /\ IF OnException(gen[r].pc) = "http500"
       THEN gen' = [gen EXCEPT ![r] = GenHTTPException(@, "http500")]
       ELSE gen' = [gen EXCEPT ![r].pc = OnException(gen[r].pc)]
    /\ UNCHANGED <<user_profiles, reports, ver>>

\* --------------------------------------------------------- /verify-payment
VerStart(s) ==
    /\ Len(gen) + Len(ver) < MaxRequests
    /\ ver' = Append(ver, VerifyRequest(s))
    /\ UNCHANGED <<user_profiles, reports, gen>>

VerRetrieve(v) ==
    /\ ver[v].pc = "retrieve"
    /\ LET session == Session(ver[v].session_id) IN
         IF IsPaid(session)
         THEN ver' = [ver EXCEPT ![v].user_id = session.metadata.user_id,
                                 ![v].pc = "select"]
         ELSE ver' = [ver EXCEPT ![v].pc = "pending"]
    /\ UNCHANGED <<user_profiles, reports, gen>>

VerSelect(v) ==
    /\ ver[v].pc = "select"
    /\ LET data == Select(ver[v].user_id) IN
         IF data # {}
         THEN \E row \in data :
                ver' = [ver EXCEPT
                          ![v].current_credits = row.credits,
                          ![v].new_credits = Granted(row.credits),
                          ![v].pc = "update"]
         ELSE ver' = [ver EXCEPT ![v].pc = "error"]
    /\ UNCHANGED <<user_profiles, reports, gen>>

VerUpdate(v) ==
    /\ ver[v].pc = "update"
    /\ user_profiles' =
          {IF row.user_id = ver[v].user_id
           THEN GrantColumns(row, ver[v].new_credits)
           ELSE row : row \in user_profiles}
    /\ ver' = [ver EXCEPT ![v].pc = "success"]
    /\ UNCHANGED <<reports, gen>>

VerRaise(v) ==
    /\ ver[v].pc \in {"retrieve", "select", "update"}
    /\ ver' = [ver EXCEPT ![v] = VerHTTPException(@)]
    /\ UNCHANGED <<user_profiles, reports, gen>>

\* ------------------------------------------------------------------- Next
Next ==
    \/ \E u \in Users : GenStart(u)
    \/ \E s \in SessionIds : VerStart(s)
    \/ \E r \in 1..Len(gen) : GenSelect(r)
    \/ \E r \in 1..Len(gen) : GenInsert(r)
    \/ \E r \in 1..Len(gen) : GenAgent(r)
    \/ \E r \in 1..Len(gen) : GenSave(r)
    \/ \E r \in 1..Len(gen) : GenDeduct(r)
    \/ \E r \in 1..Len(gen) : GenRaise(r)
    \/ \E v \in 1..Len(ver) : VerRetrieve(v)
    \/ \E v \in 1..Len(ver) : VerSelect(v)
    \/ \E v \in 1..Len(ver) : VerUpdate(v)
    \/ \E v \in 1..Len(ver) : VerRaise(v)

Spec == Init /\ [][Next]_vars

\* requests served one at a time: a request arrives only when none is running
GenEnded(req) == req.pc \in {"http200", "http402", "http500"}
VerEnded(req) == req.pc \in {"success", "pending", "error", "http500"}

Quiet ==
    /\ \A r \in 1..Len(gen) : GenEnded(gen[r])
    /\ \A v \in 1..Len(ver) : VerEnded(ver[v])

SeqNext ==
    \/ Quiet /\ \E u \in Users : GenStart(u)
    \/ Quiet /\ \E s \in SessionIds : VerStart(s)
    \/ \E r \in 1..Len(gen) : GenSelect(r)
    \/ \E r \in 1..Len(gen) : GenInsert(r)
    \/ \E r \in 1..Len(gen) : GenAgent(r)
    \/ \E r \in 1..Len(gen) : GenSave(r)
    \/ \E r \in 1..Len(gen) : GenDeduct(r)
    \/ \E r \in 1..Len(gen) : GenRaise(r)
    \/ \E v \in 1..Len(ver) : VerRetrieve(v)
    \/ \E v \in 1..Len(ver) : VerSelect(v)
    \/ \E v \in 1..Len(ver) : VerUpdate(v)
    \/ \E v \in 1..Len(ver) : VerRaise(v)

SeqSpec == Init /\ [][SeqNext]_vars

\* ------------------------------------------------------------- properties
GenIds == 1..Len(gen)
VerIds == 1..Len(ver)

\* the rows of u after the step
SelectNext(u) == {row \in user_profiles' : row.user_id = u}

\* the step is one of request r / v
GenMoves(r) == gen'[r] # gen[r]
VerMoves(v) == ver'[v] # ver[v]

StoreUnchanged == user_profiles' = user_profiles /\ reports' = reports

\* C1: the credits of every stored profile row are >= 0 in every reachable
\* state, whatever the interleaving of /generate and /verify-payment requests.
C1_CreditsNeverNegative == \A row \in user_profiles : row.credits >= 0

\* a deduction took the last credit of a profile and the row holds 0
C1_Witness ==
    \E r \in GenIds :
        /\ gen[r].pc = "http200"
        /\ gen[r].new_credits = 0
        /\ \E v \in VerIds : ver[v].pc = "success"
        /\ \E row \in user_profiles : row.credits = 0

\* C2: the write that lowers credits is made only by a request whose agent
\* returned success; a request whose agent returned error ends with 500 in
\* that very step, writes nothing to the store and takes no further step.
C2_DeductOnlyAfterSuccess ==
    [][\A r \in GenIds :
         /\ (GenMoves(r) /\ gen[r].pc = "deduct") => gen[r].result = "success"
         /\ (GenMoves(r) /\ user_profiles' # user_profiles
                /\ gen[r].pc # "insert") =>
                /\ gen[r].pc = "deduct"
                /\ gen[r].result = "success"
         /\ (GenMoves(r) /\ gen[r].pc = "agent") =>
                /\ StoreUnchanged
                /\ gen'[r].pc \in {"save", "http500"}
                /\ (gen'[r].pc = "save" <=> gen'[r].result = "success")
         /\ (GenMoves(r) /\ gen'[r].result = "error") =>
                /\ gen[r].pc = "agent"
                /\ gen'[r].pc = "http500"
                /\ StoreUnchanged
         /\ gen[r].result = "error" => ~GenMoves(r)
      ]_vars

\* a generation failed and the request ended with 500 while the profile it
\* read still holds its credit
C2_Witness ==
    \E r \in GenIds :
        /\ gen[r].pc = "http500"
        /\ gen[r].result = "error"
        /\ Len(gen) = 1 /\ Len(ver) = 0
        /\ \E row \in Select(gen[r].user_id) : row.credits > 0

\* C3: a /generate request that reads a profile whose credits are <= 0 ends
\* with 402 in that step (500 when the read itself raises), leaves profiles
\* and reports as they are, and takes no later step: no agent call.
C3_InsufficientCredits ==
    [][\A r \in GenIds :
         /\ (/\ GenMoves(r)
             /\ gen[r].pc = "select"
             /\ Select(gen[r].user_id) # {}
             /\ \A row \in Select(gen[r].user_id) : row.credits <= 0) =>
                /\ gen'[r].pc \in {"http402", "http500"}
                /\ gen'[r].result = "none"
                /\ StoreUnchanged
         /\ (GenMoves(r) /\ gen'[r].pc = "http402") =>
                /\ gen[r].pc = "select"
                /\ gen'[r].result = "none"
                /\ gen'[r].new_credits = 0
                /\ StoreUnchanged
         /\ gen[r].pc = "http402" => ~GenMoves(r)
      ]_vars

\* a request was refused with 402 and the profile still holds 0 credits
C3_Witness ==
    \E r \in GenIds :
        /\ gen[r].pc = "http402"
        /\ Select(gen[r].user_id) # {}
        /\ \A row \in Select(gen[r].user_id) :
              row.credits = 0 /\ row.tier = "Free"
        /\ \A rep \in reports : rep.user_id # gen[r].user_id

\* C4: the balance a request checks is one it read from the store (3 for a
\* user it created); the deduction returns and writes that balance less one
\* to every row of the user; hence a request that checked 1 leaves 0, and a
\* request that reads 0 is refused with 402.
C4_CreditsLeft ==
    [][\A r \in GenIds :
         /\ (GenMoves(r) /\ gen[r].pc = "select" /\ gen'[r].pc = "agent") =>
                \E row \in Select(gen[r].user_id) :
                    gen'[r].current_credits = row.credits
         /\ (GenMoves(r) /\ gen[r].pc = "insert" /\ gen'[r].pc = "agent") =>
                gen'[r].current_credits = 3
         /\ (GenMoves(r) /\ gen'[r].pc = "http200") =>
                /\ gen[r].pc = "deduct"
                /\ gen'[r].current_credits = gen[r].current_credits
                /\ gen'[r].new_credits = gen[r].current_credits - 1
                /\ \A row \in SelectNext(gen[r].user_id) :
                      row.credits = gen'[r].new_credits
                /\ (gen[r].current_credits = 1 =>
                      \A row \in SelectNext(gen[r].user_id) : row.credits = 0)
         /\ (/\ GenMoves(r)
             /\ gen[r].pc = "select"
             /\ Select(gen[r].user_id) # {}
             /\ \A row \in Select(gen[r].user_id) : row.credits = 0) =>
                gen'[r].pc \in {"http402", "http500"}
      ]_vars

\* a user holding 1 credit got credits_left = 0 and the next request of that
\* user was refused with 402
C4_Witness ==
    \E r1, r2 \in GenIds :
        /\ r1 < r2
        /\ gen[r1].user_id = gen[r2].user_id
        /\ gen[r1].pc = "http200"
        /\ gen[r1].current_credits = 1
        /\ gen[r1].new_credits = 0
        /\ gen[r2].pc = "http402"

\* C5: a verification of a paid session that reads balance c of an existing
\* profile computes c + 50, writes c + 50 and tier Pro to the rows of that
\* user only and answers success with new_credits = c + 50; with no profile
\* it answers error, with an unpaid session pending, and in both cases the
\* store is unchanged and the request takes no later step.
C5_Grant ==
    [][\A v \in VerIds :
         /\ (VerMoves(v) /\ ver'[v].pc = "update") =>
                /\ ver[v].pc = "select"
                /\ Session(ver[v].session_id).payment_status = "paid"
                /\ ver[v].user_id = Session(ver[v].session_id).metadata.user_id
                /\ \E row \in Select(ver[v].user_id) :
                      /\ ver'[v].current_credits = row.credits
                      /\ ver'[v].new_credits = row.credits + 50
                /\ StoreUnchanged
         /\ (VerMoves(v) /\ ver'[v].pc = "success") =>
                /\ ver[v].pc = "update"
                /\ ver'[v].new_credits = ver[v].current_credits + 50
                /\ \A row \in SelectNext(ver[v].user_id) :
                      /\ row.credits = ver[v].current_credits + 50
                      /\ row.tier = "Pro"
                /\ \A u \in Users \ {ver[v].user_id} : SelectNext(u) = Select(u)
                /\ Cardinality(user_profiles') = Cardinality(user_profiles)
                /\ reports' = reports
         /\ (VerMoves(v) /\ ver[v].pc = "select"
                /\ Select(ver[v].user_id) = {}) =>
                /\ ver'[v].pc \in {"error", "http500"}
                /\ StoreUnchanged
         /\ (VerMoves(v) /\ ver[v].pc = "retrieve"
                /\ Session(ver[v].session_id).payment_status # "paid") =>
                /\ ver'[v].pc \in {"pending", "http500"}
                /\ StoreUnchanged
         /\ ver[v].pc \in {"success", "error", "pending"} => ~VerMoves(v)
      ]_vars

\* a paid session was applied to an existing profile, and a verification of
\* an unpaid session answered pending
C5_Witness ==
    /\ \E v \in VerIds :
          /\ ver[v].pc = "success"
          /\ ver[v].new_credits = ver[v].current_credits + 50
          /\ Select(ver[v].user_id) # {}
          /\ \A row \in Select(ver[v].user_id) :
                row.credits = ver[v].new_credits /\ row.tier = "Pro"
    /\ \E v \in VerIds : ver[v].pc = "pending"

\* C6: while a user has no row, the only row a step can store for the user
\* is {credits: 3, tier: Free}; a request that found no row reaches the agent
\* only through the insert, which stores that row and continues with 3.
C6_NewProfile ==
    [][/\ \A u \in Users :
            Select(u) = {} =>
                \A row \in SelectNext(u) :
                    row.credits = 3 /\ row.tier = "Free"
       /\ \A r \in GenIds :
            /\ (GenMoves(r) /\ gen[r].pc = "select"
                   /\ Select(gen[r].user_id) = {}) =>
                   gen'[r].pc \in {"insert", "http500"}
            /\ (GenMoves(r) /\ gen[r].pc = "insert") =>
                   \/ /\ gen'[r].pc = "agent"
                      /\ gen'[r].current_credits = 3
                      /\ \E row \in SelectNext(gen[r].user_id) :
                            /\ row.id = r
                            /\ row.credits = 3
                            /\ row.tier = "Free"
                   \/ gen'[r].pc = "http500" /\ StoreUnchanged
            /\ (GenMoves(r) /\ gen[r].pc = "insert") => gen[r].result = "none"
      ]_vars

\* a first-time user was given a profile and then paid one credit from it
C6_Witness ==
    \E r \in GenIds :
        /\ gen[r].pc = "http200"
        /\ gen[r].current_credits = 3
        /\ \E row \in Select(gen[r].user_id) : row.id = r /\ row.credits = 2

\* C7: a successful deduction of a request that read the same balance c as
\* an already completed request of the same user returns the same
\* credits_left = c - 1 and leaves the rows at c - 1, with both reports stored:
\* the balance it finds in the store plays no part.
C7_LostDeduction ==
    [][\A r1, r2 \in GenIds :
         (/\ r1 # r2
          /\ gen[r1].user_id = gen[r2].user_id
          /\ gen[r1].pc = "http200"
          /\ GenMoves(r2)
          /\ gen'[r2].pc = "http200"
          /\ gen[r1].current_credits = gen[r2].current_credits) =>
             /\ gen'[r2].new_credits = gen[r1].new_credits
             /\ gen'[r2].new_credits = gen[r2].current_credits - 1
             /\ \A row \in SelectNext(gen[r2].user_id) :
                   row.credits = gen[r2].current_credits - 1
             /\ ReportData(r1, gen[r1].user_id) \in reports'
             /\ ReportData(r2, gen[r2].user_id) \in reports'
      ]_vars

\* two requests of one user read the same balance c > 0, both succeeded with
\* credits_left = c - 1 and the one row of the user holds c - 1
C7_Witness ==
    /\ Len(gen) = 2 /\ Len(ver) = 0
    /\ gen[1].user_id = gen[2].user_id
    /\ gen[1].pc = "http200" /\ gen[2].pc = "http200"
    /\ gen[1].current_credits = gen[2].current_credits
    /\ gen[1].current_credits > 0
    /\ gen[1].new_credits = gen[1].current_credits - 1
    /\ gen[2].new_credits = gen[1].current_credits - 1
    /\ Cardinality(Select(gen[1].user_id)) = 1
    /\ \A row \in Select(gen[1].user_id) :
          row.credits = gen[1].current_credits - 1
    /\ Cardinality(reports) = 2

\* the verifications of session s that answered success
Granted_By(s) == {v \in VerIds : ver[v].pc = "success" /\ ver[v].session_id = s}

\* C8: with requests served one at a time, k successful verifications of the
\* same paid session and no other write to the user in the run leave the
\* balance at c + 50 * k, c being the balance the first of them read; the
\* j-th of them returns c + 50 * j.
C8_NoDeduplication ==
    \A s \in SessionIds :
        LET u == Session(s).metadata.user_id
            K == Granted_By(s)
        IN  (/\ K # {}
             /\ \A r \in GenIds :
                   gen[r].user_id = u => gen[r].pc # "http200"
             /\ \A v \in VerIds :
                   (ver[v].pc = "success" /\ ver[v].user_id = u) => v \in K) =>
               LET first == CHOOSE v \in K : \A w \in K : v <= w
                   c == ver[first].current_credits
               IN  /\ \A row \in Select(u) :
                         row.credits = c + 50 * Cardinality(K)
                   /\ Select(u) # {}
                   /\ \A v \in K :
                         ver[v].new_credits =
                             c + 50 * Cardinality({w \in K : w <= v})

\* the same paid session was verified twice and the balance rose by 100
C8_Witness ==
    \E s \in SessionIds :
        /\ Cardinality(Granted_By(s)) = 2
        /\ Len(gen) = 0
        /\ \E v \in Granted_By(s) :
              \A row \in Select(ver[v].user_id) :
                  row.credits = ver[v].current_credits + 100

\* C9: a request is at the deduction, or past it, only with its ReportRecord
\* stored, so there are never more completed deductions than ReportRecords;
\* the step after a successful generation either stores the ReportRecord or
\* ends the request with 500 leaving profiles and reports unchanged.
C9_ReportBeforeDeduct ==
    /\ [](/\ \A r \in GenIds :
               gen[r].pc \in {"deduct", "http200"} =>
                   ReportData(r, gen[r].user_id) \in reports
          /\ Cardinality({r \in GenIds : gen[r].pc = "http200"})
                <= Cardinality(reports))
    /\ [][\A r \in GenIds :
            /\ (GenMoves(r) /\ gen[r].pc = "save") =>
                   \/ /\ gen'[r].pc = "deduct"
                      /\ reports' = reports \cup
                                       {ReportData(r, gen[r].user_id)}
                      /\ user_profiles' = user_profiles
                   \/ /\ gen'[r].pc = "http500"
                      /\ StoreUnchanged
            /\ (GenMoves(r) /\ reports' # reports) =>
                   gen[r].pc = "save" /\ gen[r].result = "success"
         ]_vars

\* a generation succeeded, the ReportRecord insert raised, and the request
\* ended with 500 while the profile it read still holds its credit
C9_Witness ==
    \E r \in GenIds :
        /\ Len(gen) = 1 /\ Len(ver) = 0
        /\ gen[r].pc = "http500"
        /\ gen[r].result = "success"
        /\ reports = {}
        /\ \E row \in Select(gen[r].user_id) : row.credits > 0

\* C10: a deduction of a request that read balance c, made when a payment
\* that also read c has been applied and the rows hold c + 50 and Pro,
\* leaves the rows at c - 1 and Pro: the granted 50 credits are overwritten.
C10_GrantErased ==
    [][\A r \in GenIds, v \in VerIds :
         (/\ GenMoves(r)
          /\ gen'[r].pc = "http200"
          /\ ver[v].pc = "success"
          /\ ver[v].user_id = gen[r].user_id
          /\ ver[v].current_credits = gen[r].current_credits
          /\ \A row \in Select(gen[r].user_id) :
                row.credits = ver[v].new_credits /\ row.tier = "Pro") =>
             /\ Select(gen[r].user_id) # {}
             /\ \A row \in SelectNext(gen[r].user_id) :
                   /\ row.credits = gen[r].current_credits - 1
                   /\ row.tier = "Pro"
      ]_vars

\* a request read c > 0, a payment read c and answered new_credits = c + 50,
\* and the request's deduction left c - 1 with tier Pro
C10_Witness ==
    /\ Len(gen) = 1 /\ Len(ver) = 1
    /\ gen[1].pc = "http200"
    /\ ver[1].pc = "success"
    /\ ver[1].user_id = gen[1].user_id
    /\ gen[1].current_credits > 0
    /\ ver[1].current_credits = gen[1].current_credits
    /\ ver[1].new_credits = gen[1].current_credits + 50
    /\ Cardinality(Select(gen[1].user_id)) = 1
    /\ \A row \in Select(gen[1].user_id) :
          row.credits = gen[1].current_credits - 1 /\ row.tier = "Pro"

====
